---- MODULE Spec2Model ----
(***************************************************************************)
(* The PKCS11 key-wrapping strategy of ocicrypt-rs                         *)
(* (src/keywrap/pkcs11/mod.rs): wrap_keys, unwrap_keys, no_possible_keys   *)
(* and their helpers p11conf_from_params and add_pub_keys.                 *)
(*                                                                         *)
(* The strategy object holds no state.  The state of the model is one call *)
(* scenario: the inputs handed to the strategy, the value each call        *)
(* returned, and the log of the calls made to the collaborators (the three *)
(* parsers and the two token primitives).                                  *)
(*                                                                         *)
(* Values.  Option<T> is a sequence of length 0 (None) or 1 (Some).        *)
(* Result<T> is a record [tag, val, err] with tag "Ok" or "Err"; a Rust    *)
(* panic (abnormal abort of the call) is the third tag "Panic".  A         *)
(* parameter map HashMap<String, Vec<Vec<u8>>> is a function from the      *)
(* names present to sequences of byte blobs; a blob is named by a string.  *)
(***************************************************************************)
EXTENDS Integers, Sequences, FiniteSets, TLC

VARIABLES pc, ec, opts_data, wrap_res, dc, annotation, unwrap_res, npk_res, calls

vars == <<pc, ec, opts_data, wrap_res, dc, annotation, unwrap_res, npk_res, calls>>

(***************************************************************************)
(* Bounds of the model.                                                    *)
(***************************************************************************)
\* longest pkcs11-pubkeys / pkcs11-yamls sequence of a single call
MaxKeys == 2
\* longest pkcs11-config sequence of a single call
MaxConf == 2
\* the same two bounds for the wrap-then-unwrap scenario
RtKeys == 1
RtConf == 1

(***************************************************************************)
(* Option and Result values.                                               *)
(***************************************************************************)
None == <<>>
Some(x) == <<x>>
is_none(o) == Len(o) = 0
is_some(o) == Len(o) = 1

Ok(v) == [tag |-> "Ok", val |-> v, err |-> ""]
Err(e) == [tag |-> "Err", val |-> <<>>, err |-> e]
Panic(e) == [tag |-> "Panic", val |-> <<>>, err |-> e]
NotCalled == [tag |-> "NotCalled", val |-> <<>>, err |-> ""]

\* the two error messages the strategy itself raises
MissingDecryptConfig == "EncryptConfig is missing decrypt_config member"
NoPrivateKeys == "No private keys found for PKCS11 decryption"
\* the errors of the collaborators
KeyParseError == "key parse error"
ConfigParseError == "config parse error"
DecryptError == "pkcs11 decryption failed"
IndexOutOfBounds == "index out of bounds: the len is 0 but the index is 0"

(***************************************************************************)
(* Byte blobs.                                                             *)
(***************************************************************************)
\* a key blob: a token descriptor (yaml) of key A or B, a raw PEM key of
\* key A, or bytes that are no key at all
KeyBlobs == {"yamlA", "yamlB", "pemA", "garbage"}
\* a token-configuration blob: two well-formed ones, or garbage
ConfBlobs == {"confX", "confY", "garbage"}
\* the options data (the plaintext bundle): empty and non-empty
OptsData == {<<>>, <<7, 9>>}

\* what the descriptor parser puts in a fresh token-backed descriptor
DefaultModuleDirectories == <<"/usr/lib/pkcs11">>
DefaultAllowedModulePaths == <<"/usr/lib/pkcs11/">>

BSeq(S, n) == UNION {[1..k -> S] : k \in 0..n}
Range(s) == {s[i] : i \in 1..Len(s)}

\* parameter maps: every subset of the names, every sequence up to the bound.
\* dc.param holds pkcs11-yamls and pkcs11-config, ec.param holds
\* pkcs11-pubkeys and pkcs11-yamls, and the bundle in ec.decrypt_config holds
\* pkcs11-config, the one name wrap_keys reads from it.
KeyParam(name, n) == UNION {[S -> BSeq(KeyBlobs, n)] : S \in SUBSET {name}}
ConfParam(m) == UNION {[S -> BSeq(ConfBlobs, m)] : S \in SUBSET {"pkcs11-config"}}
DecryptConfigs(n, m) ==
    {[param |-> k @@ c] : k \in KeyParam("pkcs11-yamls", n), c \in ConfParam(m)}
EncryptConfigs(n, m) ==
    {[param |-> p @@ y, decrypt_config |-> d] :
        p \in KeyParam("pkcs11-pubkeys", n),
        y \in KeyParam("pkcs11-yamls", n),
        d \in {None} \cup {Some([param |-> c]) : c \in ConfParam(m)}}

(***************************************************************************)
(* The collaborators (crate::config, crate::utils::pkcs11,                 *)
(* crate::pkcs11_uri_wrapped), at their interface.                         *)
(***************************************************************************)
\* a raw public or software key: not token backed, carries no search paths
PK(k) == [kind |-> "PK", key |-> k,
          module_directories |-> <<>>, allowed_module_paths |-> <<>>]
\* a token-backed descriptor (Pkcs11KeyFileObject), fresh from the parser
PKFO(k) == [kind |-> "PKFO", key |-> k,
            module_directories |-> DefaultModuleDirectories,
            allowed_module_paths |-> DefaultAllowedModulePaths]

parse_key(blob) ==
    CASE blob = "yamlA" -> Ok(PKFO("A"))
      [] blob = "yamlB" -> Ok(PKFO("B"))
      [] blob = "pemA" -> Ok(PK("A"))
      [] OTHER -> Err(KeyParseError)

parse_public_key(key, prefix) == parse_key(key)

parse_private_key(key, password, prefix) == parse_key(key)

parse_pkcs11_config_file(blob) ==
    CASE blob = "confX" -> Ok([module_directories |-> <<"/x/lib", "/x/lib64">>,
                               allowed_module_paths |-> <<"/x/lib/">>])
      [] blob = "confY" -> Ok([module_directories |-> <<>>,
                               allowed_module_paths |-> <<"/y/softhsm.so">>])
      [] OTHER -> Err(ConfigParseError)

set_module_directories(p, dirs) == [p EXCEPT !.module_directories = dirs]

set_allowed_module_paths(p, paths) == [p EXCEPT !.allowed_module_paths = paths]

\* the wrapped blob: one wrapped copy per recipient, in order, and the payload
encrypt_multiple(recipients, data) ==
    Ok(<<[i \in 1..Len(recipients) |-> recipients[i].key], data>>)

\* tries each descriptor until one opens the blob
decrypt_pkcs11(keys, blob) ==
    IF Len(blob) = 2 /\ \E i \in 1..Len(keys) : keys[i].key \in Range(blob[1])
    THEN Ok(blob[2])
    ELSE Err(DecryptError)

(***************************************************************************)
(* The log of calls made to the collaborators during one call.             *)
(***************************************************************************)
NoCalls == [conf |-> <<>>, pub |-> <<>>, priv |-> <<>>, enc |-> <<>>, dec |-> <<>>]

\* .collect::<Result<Vec<_>>>() over the parse results: the entries are
\* parsed in order and the first error ends the iteration; consumed is the
\* number of entries the iteration parsed
collect_results(results) ==
    LET bad == {i \in 1..Len(results) : results[i].tag # "Ok"}
        stop == IF bad = {} THEN Len(results)
                ELSE CHOOSE i \in bad : \A j \in bad : i <= j
    IN  [res |-> IF bad = {}
                 THEN Ok([i \in 1..Len(results) |-> results[i].val])
                 ELSE Err(results[stop].err),
         consumed |-> stop]

(***************************************************************************)
(* The strategy.                                                           *)
(***************************************************************************)
private_keys(dcparameters) ==
    IF "pkcs11-yamls" \in DOMAIN dcparameters
    THEN Some(dcparameters["pkcs11-yamls"])
    ELSE None

no_possible_keys(dcparameters) == is_none(private_keys(dcparameters))

\* mutant: a configuration that does not parse is taken as no configuration
p11conf_from_params_ignoring_errors(dcparameters) ==
    IF "pkcs11-config" \in DOMAIN dcparameters
    THEN IF Len(dcparameters["pkcs11-config"]) = 0
         THEN [res |-> Panic(IndexOutOfBounds), parsed |-> <<>>]
         ELSE LET blob == dcparameters["pkcs11-config"][1]
                  r == parse_pkcs11_config_file(blob)
              IN  [res |-> IF r.tag = "Ok" THEN Ok(Some(r.val)) ELSE Ok(None),
                   parsed |-> <<blob>>]
    ELSE [res |-> Ok(None), parsed |-> <<>>]

\* Ok(None), Ok(Some(conf)) or the parser's error; indexing [0] of an empty
\* sequence panics
p11conf_from_params(dcparameters) ==
    IF "pkcs11-config" \in DOMAIN dcparameters
    THEN IF Len(dcparameters["pkcs11-config"]) = 0
         THEN [res |-> Panic(IndexOutOfBounds), parsed |-> <<>>]
         ELSE LET blob == dcparameters["pkcs11-config"][1]
                  r == parse_pkcs11_config_file(blob)
              IN  [res |-> IF r.tag = "Ok" THEN Ok(Some(r.val)) ELSE Err(r.err),
                   parsed |-> <<blob>>]
    ELSE [res |-> Ok(None), parsed |-> <<>>]

\* mutant: the allowed module paths are not set
update_pub_key_dirs_only(key, p11conf_opt) ==
    IF key.kind = "PKFO" /\ is_some(p11conf_opt)
    THEN set_module_directories(key, p11conf_opt[1].module_directories)
    ELSE key

\* the closure of add_pub_keys: only a PKFO is touched
update_pub_key(key, p11conf_opt) ==
    IF key.kind = "PKFO" /\ is_some(p11conf_opt)
    THEN set_allowed_module_paths(
             set_module_directories(key, p11conf_opt[1].module_directories),
             p11conf_opt[1].allowed_module_paths)
    ELSE key

\* parsing and updating the keys, after the test for no keys
add_pub_keys_parse(d, pubkeys) ==
    LET c == p11conf_from_params(d.param)
        ks == collect_results([i \in 1..Len(pubkeys) |->
                                  parse_public_key(pubkeys[i], "PKCS11")])
    IN  IF c.res.tag # "Ok"
        THEN [res |-> c.res, calls |-> [NoCalls EXCEPT !.conf = c.parsed]]
        ELSE [res |-> IF ks.res.tag # "Ok" THEN ks.res
                      ELSE Ok([i \in 1..Len(pubkeys) |->
                                  update_pub_key(ks.res.val[i], c.res.val)]),
              calls |-> [NoCalls EXCEPT !.conf = c.parsed, !.pub = SubSeq(pubkeys, 1, ks.consumed)]]

\* mutant: no early return for an empty key list
add_pub_keys_no_early_return(d, pubkeys) == add_pub_keys_parse(d, pubkeys)

add_pub_keys(d, pubkeys) ==
    IF Len(pubkeys) = 0
    THEN [res |-> Ok(<<>>), calls |-> NoCalls]
    ELSE add_pub_keys_parse(d, pubkeys)

\* mutant: pkcs11-yamls first
collect_pubkeys_yamls_first(param) ==
    (IF "pkcs11-yamls" \in DOMAIN param THEN param["pkcs11-yamls"] ELSE <<>>)
    \o (IF "pkcs11-pubkeys" \in DOMAIN param THEN param["pkcs11-pubkeys"] ELSE <<>>)

\* the recipients' blobs: pkcs11-pubkeys, then pkcs11-yamls
collect_pubkeys(param) ==
    (IF "pkcs11-pubkeys" \in DOMAIN param THEN param["pkcs11-pubkeys"] ELSE <<>>)
    \o (IF "pkcs11-yamls" \in DOMAIN param THEN param["pkcs11-yamls"] ELSE <<>>)

\* the recipients are resolved; none gives the empty blob, else they are
\* handed to the primitive and its result is returned
wrap_for(d, pubkeys, data) ==
    LET r == add_pub_keys(d, pubkeys)
    IN  IF r.res.tag # "Ok" THEN r
        ELSE IF Len(r.res.val) = 0
        THEN [res |-> Ok(<<>>), calls |-> r.calls]
        ELSE LET out == encrypt_multiple(r.res.val, data)
             IN  [res |-> out,
                  calls |-> [r.calls EXCEPT !.enc =
                      <<[recipients |-> r.res.val, data |-> data, ret |-> out]>>]]

\* mutant: a missing decrypt_config is taken as the default DecryptConfig
wrap_keys_default_decrypt_config(e, data) ==
    wrap_for(IF is_none(e.decrypt_config) THEN [param |-> <<>>]
             ELSE e.decrypt_config[1],
             collect_pubkeys(e.param), data)

wrap_keys(e, data) ==
    LET pubkeys == collect_pubkeys(e.param)
    IN  IF is_none(e.decrypt_config)
        THEN [res |-> Err(MissingDecryptConfig), calls |-> NoCalls]
        ELSE wrap_for(e.decrypt_config[1], pubkeys, data)

\* mutant: the match keeps the other variant
retain_pkfo_other_variant(parsed, p11conf_opt) ==
    SelectSeq(parsed, LAMBDA k : k.kind # "PKFO")

\* the filter_map of unwrap_keys: a PKFO is kept, with the search paths of
\* the configuration when there is one; any other kind is dropped
retain_pkfo(parsed, p11conf_opt) ==
    LET toks == SelectSeq(parsed, LAMBDA k : k.kind = "PKFO")
    IN  [i \in 1..Len(toks) |->
            IF is_some(p11conf_opt)
            THEN set_allowed_module_paths(
                     set_module_directories(toks[i],
                                            p11conf_opt[1].module_directories),
                     p11conf_opt[1].allowed_module_paths)
            ELSE toks[i]]

unwrap_keys(d, blob) ==
    LET priv_keys == private_keys(d.param)
    IN  IF is_none(priv_keys)
        THEN [res |-> Err(NoPrivateKeys), calls |-> NoCalls]
        ELSE LET c == p11conf_from_params(d.param)
                 ks == collect_results([i \in 1..Len(priv_keys[1]) |->
                           parse_private_key(priv_keys[1][i], <<>>, "PKCS11")])
             IN  IF c.res.tag # "Ok"
                 THEN [res |-> c.res, calls |-> [NoCalls EXCEPT !.conf = c.parsed]]
                 ELSE IF ks.res.tag # "Ok"
                 THEN [res |-> ks.res,
                       calls |-> [NoCalls EXCEPT !.conf = c.parsed,
                           !.priv = SubSeq(priv_keys[1], 1, ks.consumed)]]
                 ELSE LET pkcs11_keys == retain_pkfo(ks.res.val, c.res.val)
                          out == decrypt_pkcs11(pkcs11_keys, blob)
                      IN  [res |-> out,
                           calls |-> [NoCalls EXCEPT
                               !.conf = c.parsed,
                               !.priv = SubSeq(priv_keys[1], 1, ks.consumed),
                               !.dec = <<[keys |-> pkcs11_keys,
                                          annotation |-> blob, ret |-> out]>>]]

(***************************************************************************)
(* The scenarios.  Init is the state before any call: the default          *)
(* EncryptConfig and DecryptConfig, nothing returned, nothing logged.      *)
(***************************************************************************)
\* blobs an unwrap may be handed on its own: the empty blob, or a blob
\* wrapped for some recipients
Annotations ==
    {<<>>} \cup {<<r, d>> : r \in {<<"A">>, <<"B">>, <<"A", "B">>}, d \in OptsData}

Init ==
    /\ pc = "idle"
    /\ ec = [param |-> <<>>, decrypt_config |-> None]
    /\ opts_data = <<>>
    /\ wrap_res = NotCalled
    /\ dc = [param |-> <<>>]
    /\ annotation = <<>>
    /\ unwrap_res = NotCalled
    /\ npk_res = NotCalled
    /\ calls = NoCalls

\* kw.wrap_keys(&ec, data)
WrapKeys(ECs) ==
    /\ pc = "idle"
    /\ \E e \in ECs, data \in OptsData :
          LET r == wrap_keys(e, data)
          IN  /\ ec' = e
              /\ opts_data' = data
              /\ wrap_res' = r.res
              /\ calls' = r.calls
    /\ pc' = "wrapped"
    /\ UNCHANGED <<dc, annotation, unwrap_res, npk_res>>

\* kw.unwrap_keys(&dc, blob)
Unwrap(d, blob) ==
    LET r == unwrap_keys(d, blob)
    IN  /\ dc' = d
        /\ annotation' = blob
        /\ unwrap_res' = r.res
        /\ calls' = r.calls
        /\ pc' = "unwrapped"
        /\ UNCHANGED <<ec, opts_data, wrap_res, npk_res>>

\* an unwrap on its own, of any blob
UnwrapKeys(DCs) ==
    /\ pc = "idle"
    /\ \E d \in DCs, blob \in Annotations : Unwrap(d, blob)

\* the unwrap of the round trip: let wk = kw.wrap_keys(&ec, data).unwrap();
\* kw.unwrap_keys(&dc, &wk)
UnwrapWrapped(DCs) ==
    /\ pc = "wrapped"
    /\ wrap_res.tag = "Ok"
    /\ \E d \in DCs : Unwrap(d, wrap_res.val)

\* kw.no_possible_keys(&dc.param)
NoPossibleKeys(DCs) ==
    /\ pc = "idle"
    /\ \E d \in DCs :
          /\ dc' = d
          /\ npk_res' = Ok(<<no_possible_keys(d.param)>>)
    /\ pc' = "checked"
    /\ UNCHANGED <<ec, opts_data, wrap_res, annotation, unwrap_res, calls>>

Next ==
    \/ WrapKeys(EncryptConfigs(MaxKeys, MaxConf))
    \/ UnwrapKeys(DecryptConfigs(MaxKeys, MaxConf))
    \/ NoPossibleKeys(DecryptConfigs(MaxKeys, MaxConf))

Spec == Init /\ [][Next]_vars

\* the round trip: a wrap, then the unwrap of what it returned
NextRoundTrip ==
    \/ WrapKeys(EncryptConfigs(RtKeys, RtConf))
    \/ UnwrapWrapped(DecryptConfigs(RtKeys, RtConf))

SpecRoundTrip == Init /\ [][NextRoundTrip]_vars

(***************************************************************************)
(* The properties.  They are stated over the inputs, the returned values   *)
(* and the call log, with the parsers applied to the inputs directly.      *)
(***************************************************************************)
KeyIds == {"A", "B"}

Entries(param, name) == IF name \in DOMAIN param THEN param[name] ELSE <<>>

\* every key entry the encrypt parameters supply
KeySupply(param) == Entries(param, "pkcs11-pubkeys") \o Entries(param, "pkcs11-yamls")

AllParse(blobs) == \A i \in 1..Len(blobs) : parse_key(blobs[i]).tag = "Ok"

\* the token-backed descriptors among the parsed entries (all of them parse)
TokenBacked(blobs) ==
    SelectSeq([i \in 1..Len(blobs) |-> parse_key(blobs[i]).val],
              LAMBDA k : k.kind = "PKFO")

\* private-key resolution yields a list (no entry fails to parse)
Resolves(param) == AllParse(Entries(param, "pkcs11-yamls"))

\* the list private-key resolution yields
Resolved(param) == TokenBacked(Entries(param, "pkcs11-yamls"))

ConfSupplied(param) == "pkcs11-config" \in DOMAIN param

\* the token configuration is absent, or its first entry parses
ConfUsable(param) ==
    ConfSupplied(param) =>
        /\ Len(param["pkcs11-config"]) >= 1
        /\ parse_pkcs11_config_file(param["pkcs11-config"][1]).tag = "Ok"

\* the first entry of the token configuration does not parse
ConfMalformedFirst(param) ==
    /\ ConfSupplied(param)
    /\ Len(param["pkcs11-config"]) >= 1
    /\ parse_pkcs11_config_file(param["pkcs11-config"][1]).tag = "Err"

\* some entry of the token configuration does not parse
ConfMalformedAny(param) ==
    /\ ConfSupplied(param)
    /\ \E i \in 1..Len(param["pkcs11-config"]) :
          parse_pkcs11_config_file(param["pkcs11-config"][i]).tag = "Err"

\* the configuration a call that reached the primitive was given
SuppliedConf(param) ==
    IF ConfSupplied(param)
    THEN Some(parse_pkcs11_config_file(param["pkcs11-config"][1]).val)
    ELSE None

\* a descriptor as it must reach the primitive
Overridden(desc, conf_opt) ==
    IF desc.kind = "PKFO" /\ is_some(conf_opt)
    THEN [desc EXCEPT !.module_directories = conf_opt[1].module_directories,
                      !.allowed_module_paths = conf_opt[1].allowed_module_paths]
    ELSE desc

NamesPublic(e, k) ==
    \E i \in 1..Len(KeySupply(e.param)) :
        /\ parse_key(KeySupply(e.param)[i]).tag = "Ok"
        /\ parse_key(KeySupply(e.param)[i]).val.key = k

NamesPrivate(d, k) ==
    \E i \in 1..Len(Entries(d.param, "pkcs11-yamls")) :
        /\ parse_key(Entries(d.param, "pkcs11-yamls")[i]).tag = "Ok"
        /\ parse_key(Entries(d.param, "pkcs11-yamls")[i]).val = PKFO(k)

\* C1 as stated: whenever the encrypt parameters name the public side of a
\* key and the decrypt parameters name its private descriptor under
\* pkcs11-yamls, the wrap succeeds and the unwrap of its result returns
\* exactly the options data.
RoundTripAsStated ==
    \A k \in KeyIds :
        NamesPublic(ec, k) =>
            /\ pc = "wrapped" => wrap_res.tag = "Ok"
            /\ pc = "unwrapped" /\ NamesPrivate(dc, k) => unwrap_res = Ok(opts_data)

\* C1 amended: the round trip returns exactly the options data provided, in
\* addition, the EncryptConfig carries a decrypt-side bundle, every key
\* entry of the encrypt parameters and every pkcs11-yamls entry of the
\* decrypt parameters parses, and the pkcs11-config of each decrypt-side
\* bundle is absent or has a first entry that parses.
RoundTrip ==
    \A k \in KeyIds :
        /\ NamesPublic(ec, k)
        /\ is_some(ec.decrypt_config)
        /\ AllParse(KeySupply(ec.param))
        /\ ConfUsable(ec.decrypt_config[1].param)
        => /\ pc = "wrapped" => wrap_res.tag = "Ok" /\ Len(wrap_res.val) > 0
           /\ /\ pc = "unwrapped"
              /\ NamesPrivate(dc, k)
              /\ AllParse(Entries(dc.param, "pkcs11-yamls"))
              /\ ConfUsable(dc.param)
              => unwrap_res = Ok(opts_data)

RoundTripWitness ==
    /\ pc = "unwrapped"
    /\ Entries(ec.param, "pkcs11-pubkeys") = <<"pemA">>
    /\ Entries(ec.param, "pkcs11-yamls") = <<"yamlB">>
    /\ Entries(dc.param, "pkcs11-yamls") = <<"yamlA">>
    /\ Entries(dc.param, "pkcs11-config") = <<"confX">>
    /\ opts_data = <<7, 9>>
    /\ unwrap_res = Ok(<<7, 9>>)

\* C2: the strategy reports itself applicable (no_possible_keys is false)
\* exactly when private-key resolution yields a non-empty list of
\* token-backed descriptors.
ApplicabilityLaw ==
    pc = "checked" =>
        (npk_res.val[1] = FALSE <=>
            Resolves(dc.param) /\ Len(Resolved(dc.param)) > 0)

\* C3: when private-key resolution yields zero token-backed descriptors,
\* unwrap_keys fails with the 'no private keys' error and the decryption
\* primitive is not called.
NoPrivateKeysLaw ==
    pc = "unwrapped" /\ Resolves(dc.param) /\ Len(Resolved(dc.param)) = 0 =>
        unwrap_res = Err(NoPrivateKeys) /\ Len(calls.dec) = 0

\* C4: a wrap with a decrypt-side bundle and no key entry at all returns the
\* empty blob and the encryption primitive is not called.
EmptyRecipientsLaw ==
    /\ pc = "wrapped"
    /\ is_some(ec.decrypt_config)
    /\ Len(KeySupply(ec.param)) = 0
    => wrap_res = Ok(<<>>) /\ Len(calls.enc) = 0

EmptyRecipientsWitness ==
    /\ pc = "wrapped"
    /\ is_some(ec.decrypt_config)
    /\ DOMAIN ec.param = {"pkcs11-pubkeys", "pkcs11-yamls"}
    /\ Len(KeySupply(ec.param)) = 0
    /\ ConfMalformedFirst(ec.decrypt_config[1].param)
    /\ opts_data = <<7, 9>>
    /\ wrap_res = Ok(<<>>)

\* C5: every descriptor handed to the encryption or decryption primitive is
\* the parsed entry it comes from, with exactly the module_directories and
\* allowed_module_paths of the supplied token configuration if it is token
\* backed and a configuration is supplied, and unchanged otherwise.
OverrideInvariant ==
    /\ pc = "wrapped" /\ Len(calls.enc) = 1 =>
          LET rec == calls.enc[1].recipients
              supply == KeySupply(ec.param)
              conf == SuppliedConf(ec.decrypt_config[1].param)
          IN  /\ Len(rec) = Len(supply)
              /\ \A i \in 1..Len(rec) :
                    rec[i] = Overridden(parse_key(supply[i]).val, conf)
    /\ pc = "unwrapped" /\ Len(calls.dec) = 1 =>
          LET keys == calls.dec[1].keys
              toks == TokenBacked(Entries(dc.param, "pkcs11-yamls"))
              conf == SuppliedConf(dc.param)
          IN  /\ Len(keys) = Len(toks)
              /\ \A i \in 1..Len(keys) : keys[i] = Overridden(toks[i], conf)

OverrideWitness ==
    /\ pc = "wrapped"
    /\ Len(calls.enc) = 1
    /\ Entries(ec.decrypt_config[1].param, "pkcs11-config") = <<"confY", "confX">>
    /\ \E i, j \in 1..Len(calls.enc[1].recipients) :
          /\ calls.enc[1].recipients[i].kind = "PK"
          /\ calls.enc[1].recipients[j].kind = "PKFO"
          /\ calls.enc[1].recipients[j].module_directories = <<>>
          /\ calls.enc[1].recipients[j].allowed_module_paths = <<"/y/softhsm.so">>

\* C6: when an entry of the decrypt parameters' pkcs11-yamls does not parse,
\* unwrap_keys fails with a parse error and the decryption primitive is not
\* called.
MalformedKeyRejected ==
    pc = "unwrapped" /\ ~AllParse(Entries(dc.param, "pkcs11-yamls")) =>
        /\ unwrap_res.tag = "Err"
        /\ unwrap_res.err \in {KeyParseError, ConfigParseError}
        /\ Len(calls.dec) = 0

\* C7: a wrap whose EncryptConfig has no decrypt_config fails with the
\* missing-decrypt-config error whatever the encrypt parameters hold, and
\* parses no key and calls no encryption.
MissingDecryptContext ==
    pc = "wrapped" /\ is_none(ec.decrypt_config) =>
        /\ wrap_res = Err(MissingDecryptConfig)
        /\ calls.pub = <<>>
        /\ Len(calls.enc) = 0

MissingDecryptContextWitness ==
    /\ pc = "wrapped"
    /\ is_none(ec.decrypt_config)
    /\ Entries(ec.param, "pkcs11-pubkeys") = <<"yamlA", "garbage">>
    /\ wrap_res = Err(MissingDecryptConfig)

\* C8 as stated: whenever the decrypt-side bundle carries a pkcs11-config
\* entry that does not parse, wrap_keys fails with the configuration parse
\* error, and unwrap_keys fails without calling the decryption primitive.
MalformedConfigAsStated ==
    /\ /\ pc = "wrapped"
       /\ is_some(ec.decrypt_config)
       /\ ConfMalformedAny(ec.decrypt_config[1].param)
       => wrap_res = Err(ConfigParseError)
    /\ pc = "unwrapped" /\ ConfMalformedAny(dc.param) =>
          unwrap_res.tag = "Err" /\ Len(calls.dec) = 0

\* C8 amended: whenever the first pkcs11-config entry of the decrypt-side
\* bundle does not parse, wrap_keys fails with the configuration parse error
\* and calls no encryption if the encrypt parameters supply at least one key
\* entry, and returns the empty blob if they supply none; unwrap_keys fails
\* without calling the decryption primitive.
MalformedConfigFatal ==
    /\ /\ pc = "wrapped"
       /\ is_some(ec.decrypt_config)
       /\ ConfMalformedFirst(ec.decrypt_config[1].param)
       => /\ Len(calls.enc) = 0
          /\ IF Len(KeySupply(ec.param)) > 0
             THEN wrap_res = Err(ConfigParseError)
             ELSE wrap_res = Ok(<<>>)
    /\ pc = "unwrapped" /\ ConfMalformedFirst(dc.param) =>
          unwrap_res.tag = "Err" /\ Len(calls.dec) = 0

MalformedConfigWitness ==
    /\ pc = "wrapped"
    /\ is_some(ec.decrypt_config)
    /\ Entries(ec.decrypt_config[1].param, "pkcs11-config") = <<"garbage", "confX">>
    /\ KeySupply(ec.param) = <<"yamlA">>
    /\ wrap_res = Err(ConfigParseError)

\* C9: on a successful wrap with at least one key entry, the encryption
\* primitive is called once with one recipient per entry, the pkcs11-pubkeys
\* entries in order followed by the pkcs11-yamls entries in order, and the
\* wrap returns what the primitive returned.
RecipientsInOrder ==
    /\ pc = "wrapped"
    /\ wrap_res.tag = "Ok"
    /\ Len(KeySupply(ec.param)) > 0
    => /\ Len(calls.enc) = 1
       /\ LET rec == calls.enc[1].recipients
              pubs == Entries(ec.param, "pkcs11-pubkeys")
              yamls == Entries(ec.param, "pkcs11-yamls")
              From(r, blob) == /\ r.kind = parse_key(blob).val.kind
                               /\ r.key = parse_key(blob).val.key
          IN  /\ Len(rec) = Len(pubs) + Len(yamls)
              /\ \A i \in 1..Len(pubs) : From(rec[i], pubs[i])
              /\ \A j \in 1..Len(yamls) : From(rec[Len(pubs) + j], yamls[j])
       /\ calls.enc[1].data = opts_data
       /\ wrap_res = calls.enc[1].ret

RecipientsInOrderWitness ==
    /\ pc = "wrapped"
    /\ wrap_res.tag = "Ok"
    /\ Entries(ec.param, "pkcs11-pubkeys") = <<"yamlB", "yamlB">>
    /\ Entries(ec.param, "pkcs11-yamls") = <<"pemA", "yamlB">>
    /\ Len(calls.enc) = 1
    /\ Len(calls.enc[1].recipients) = 4

\* C10: every wrap_keys and unwrap_keys call ends with a result or an error
\* value, never with an abnormal abort, whatever the parameter maps hold.
ResolutionTotal ==
    /\ pc = "wrapped" => wrap_res.tag \in {"Ok", "Err"}
    /\ pc = "unwrapped" => unwrap_res.tag \in {"Ok", "Err"}

====
